---- MODULE Spec2Model ----
(***************************************************************************)
(* Model of the adversarial search agent CustomPlayer                      *)
(* (my_custom_player.py, kept as compiled bytecode): get_action, min_value,*)
(* max_value, NegamaxAlphaBeta, alpha_beta_search, score, score2,          *)
(* custom_heuristic and mcts, over an abstract two-player zero-sum game.   *)
(*                                                                         *)
(* A game is a finite tree of states.  State i is the record game[i]:      *)
(*   parent : the state it was reached from (0 for the root)               *)
(*   acts   : state.actions(), in order; an action is named by the state   *)
(*            it leads to, so state.result(a) = a                          *)
(*   ply    : state.ply_count; the player to move is ply % 2               *)
(*   util   : state.utility(0); utility(1) is its negation (zero-sum)      *)
(*   loc    : state.locs, the cell of player 0 and of player 1             *)
(*   reach  : the cells the player who is NOT to move could move to; the   *)
(*            player to move reaches exactly the cells of acts             *)
(* A state is terminal exactly when it has no action.                      *)
(***************************************************************************)
EXTENDS Integers, Sequences, FiniteSets, TLC

\* ---------------------------------------------------------------- bounds
MaxNodes == 5      \* states per game tree
MaxUtil  == 1      \* a terminal state is a loss, a draw or a win: -MaxUtil, 0, MaxUtil
MaxLib   == 1      \* the player not to move reaches no cell or MaxLib cells
MaxDepth == 3      \* search depths tried: 0..MaxDepth
MaxHeurNodes == 3  \* states per game tree handed to the heuristics alone
MaxMctsNodes == 4  \* states per game tree handed to get_action and mcts
MaxPly   == 3      \* ply_count of the state get_action is called with: 0..MaxPly
IterLimit == 3     \* iter_limit of mcts: 0..IterLimit, the default being IterLimit
MaxQueens == 5     \* board sizes handed to nqueens: 4..MaxQueens

\* ------------------------------------------------------- program values
Inf      == 1000   \* float("inf"); every finite score is strictly inside -Inf..Inf
Sentinel == -11    \* the tuple (-1, -1), best_move before any action is seen
None     == -99    \* Python's None
EmptyList == -98   \* the list [], best_move at the start of get_action's loop
Raised   == -97    \* a call that ended by raising an exception

VARIABLES
  game,        \* the game tree handed to the agent (never changed by it)
  player_id,   \* self.player_id
  call,        \* the last finished call of a search method or heuristic
  pc,          \* get_action: position in the method
  queue,       \* get_action: the values put on self.queue so far, in order
  best_move,   \* get_action: local best_move
  move,        \* get_action: local move
  searches,    \* get_action: completed self.mcts calls
  mpc,         \* mcts: "off", "loop" (in the for loop) or "done"
  mroot,       \* mcts: the parameter state
  iter_limit,  \* mcts: the parameter iter_limit
  mnodes,      \* mcts: the tree nodes, node 1 being root
  iter,        \* mcts: iterations of the for loop done
  mret,        \* mcts: once done, the returned action, or Raised
  nq_solver,   \* notebook: the solver nqueens(N) returned, with its constraints
  nq_eval      \* notebook: an assignment of rows tried against nq_solver

vars == <<game, player_id, call, pc, queue, best_move, move, searches,
          mpc, mroot, iter_limit, mnodes, iter, mret, nq_solver, nq_eval>>

QueensVars == <<nq_solver, nq_eval>>

\* ------------------------------------------------------ game environment
Nodes == 1..Len(game)

actions(state) == game[state].acts

result(state, a) == a

terminal_test(state) == game[state].acts = <<>>

ply_count(state) == game[state].ply

player(state) == game[state].ply % 2

utility(state, p) == IF p = 0 THEN game[state].util ELSE -game[state].util

locs(state) == [p \in 0..1 |-> game[state].loc[p + 1]]

Range(q) == {q[i] : i \in 1..Len(q)}

liberties(state, l) ==
  IF l = locs(state)[player(state)] THEN Range(actions(state))
  ELSE IF l = locs(state)[1 - player(state)] THEN game[state].reach
  ELSE {}

\* state.actions(p) as custom_heuristic calls it: the moves of player p
actions_of(state, p) == liberties(state, locs(state)[p])

max(a, b) == IF a >= b THEN a ELSE b

min(a, b) == IF a <= b THEN a ELSE b

\* ------------------------------------------------------------ heuristics
\* `self` is the agent; the only attribute the methods read is self.player_id
\* score with the opponent's term left out
score_OwnOnly(self, state) ==
  Cardinality(liberties(state, locs(state)[self]))

score(self, state) ==
  LET own_loc == locs(state)[self]
      opp_loc == locs(state)[1 - self]
      own_liberties == liberties(state, own_loc)
      opp_liberties == liberties(state, opp_loc)
  IN  Cardinality(own_liberties) - Cardinality(opp_liberties)

score2(self, state) ==
  LET own_loc == locs(state)[self]
      own_liberties == liberties(state, own_loc)
  IN  Cardinality(own_liberties)

\* custom_heuristic adding the ratio own_moves / opp_moves without a guard:
\* the division raises ZeroDivisionError when the opponent has no move
custom_heuristic_Ratio(self, state) ==
  IF terminal_test(state) THEN utility(state, self)
  ELSE LET mv == locs(state)[self]
           bonus == IF mv \in actions_of(state, 1 - self) THEN 5 ELSE 0
           own_moves == Cardinality(actions_of(state, self))
           opp_moves == Cardinality(actions_of(state, 1 - self))
       IN  IF opp_moves = 0 THEN Raised ELSE bonus + (own_moves \div opp_moves)

custom_heuristic(self, state) ==
  IF terminal_test(state) THEN utility(state, self)
  ELSE LET score0 == 0
           mv == locs(state)[self]
           opp_moves0 == actions_of(state, 1 - self)
           score1 == IF mv \in opp_moves0 THEN score0 + 5 ELSE score0
           own_moves == Cardinality(actions_of(state, self))
           opp_moves == Cardinality(actions_of(state, 1 - self))
       IN  score1 + (own_moves - opp_moves)

\* --------------------------------------------------- alpha-beta minimax
RECURSIVE min_value(_, _, _, _, _), max_value(_, _, _, _, _)
RECURSIVE min_loop(_, _, _, _, _, _, _), max_loop(_, _, _, _, _, _, _)

\* the for loop of min_value from action number i on, v and beta as they stand
min_loop(self, state, alpha, beta, depth, v, i) ==
  IF i > Len(actions(state)) THEN v
  ELSE LET a  == actions(state)[i]
           v2 == min(v, max_value(self, result(state, a), alpha, beta, depth - 1))
       IN  IF v2 <= alpha THEN v2
           ELSE min_loop(self, state, alpha, min(beta, v2), depth, v2, i + 1)

\* min_value testing the depth before the terminal test
min_value_DepthFirst(self, state, alpha, beta, depth) ==
  IF depth <= 0 THEN score(self, state)
  ELSE IF terminal_test(state) THEN utility(state, self)
  ELSE min_loop(self, state, alpha, beta, depth, Inf, 1)

min_value(self, state, alpha, beta, depth) ==
  IF terminal_test(state) THEN utility(state, self)
  ELSE IF depth <= 0 THEN score(self, state)
  ELSE min_loop(self, state, alpha, beta, depth, Inf, 1)

\* the for loop of max_value leaving on `v >= alpha` in place of `v >= beta`
max_loop_CutOnAlpha(self, state, alpha, beta, depth, v, i) ==
  IF i > Len(actions(state)) THEN v
  ELSE LET a  == actions(state)[i]
           v2 == max(v, min_value(self, result(state, a), alpha, beta, depth - 1))
       IN  IF v2 >= alpha THEN v2
           ELSE max_loop(self, state, max(alpha, v2), beta, depth, v2, i + 1)

\* the for loop of max_value from action number i on, v and alpha as they stand
max_loop(self, state, alpha, beta, depth, v, i) ==
  IF i > Len(actions(state)) THEN v
  ELSE LET a  == actions(state)[i]
           v2 == max(v, min_value(self, result(state, a), alpha, beta, depth - 1))
       IN  IF v2 >= beta THEN v2
           ELSE max_loop(self, state, max(alpha, v2), beta, depth, v2, i + 1)

max_value(self, state, alpha, beta, depth) ==
  IF terminal_test(state) THEN utility(state, self)
  ELSE IF depth <= 0 THEN score(self, state)
  ELSE max_loop(self, state, alpha, beta, depth, -Inf, 1)

RECURSIVE alpha_beta_loop(_, _, _, _, _, _, _, _)
\* the for loop of alpha_beta_search from action number i on; gives the locals
\* best_move and best_score as the loop leaves them
alpha_beta_loop(self, state, depth, alpha, beta, best_score, bm, i) ==
  IF i > Len(actions(state)) THEN [best_move |-> bm, best_score |-> best_score]
  ELSE LET a == actions(state)[i]
           v == min_value(self, result(state, a), alpha, beta, depth - 1)
           better == v >= best_score
       IN  alpha_beta_loop(self, state, depth, max(alpha, v), beta,
                           IF better THEN v ELSE best_score,
                           IF better THEN a ELSE bm, i + 1)

\* alpha_beta_search with best_score initialised to 0
alpha_beta_locals_ZeroInit(self, state, depth) ==
  alpha_beta_loop(self, state, depth, -Inf, Inf, 0, Sentinel, 1)

\* alpha_beta_search with best_move initialised to None
alpha_beta_locals_NoneInit(self, state, depth) ==
  alpha_beta_loop(self, state, depth, -Inf, Inf, -Inf, None, 1)

alpha_beta_locals(self, state, depth) ==
  alpha_beta_loop(self, state, depth, -Inf, Inf, -Inf, Sentinel, 1)

alpha_beta_search(self, state, depth) ==
  alpha_beta_locals(self, state, depth).best_move

RECURSIVE Negamax_loop(_, _, _, _, _, _, _, _)
\* the for loop of NegamaxAlphaBeta from action number i on
Negamax_loop(self, state, depth, alpha, beta, best_score, bm, i) ==
  IF i > Len(actions(state)) THEN bm
  ELSE LET a == actions(state)[i]
           v == 1 * min_value(self, result(state, a), -1 * alpha, -1 * beta, depth - 1)
           alpha2 == max(alpha, v)
           better == v >= best_score
           bm2 == IF better THEN a ELSE bm
       IN  IF alpha2 >= beta THEN bm2
           ELSE Negamax_loop(self, state, depth, alpha2, beta,
                             IF better THEN v ELSE best_score, bm2, i + 1)

NegamaxAlphaBeta(self, state, depth) ==
  IF depth = 0 \/ terminal_test(state) THEN utility(state, self)
  ELSE Negamax_loop(self, state, depth, -Inf, Inf, -Inf, Sentinel, 1)

\* ----------------------------------- the calls one search call makes
\* The operators below follow the same code as min_value, max_value,
\* alpha_beta_search and NegamaxAlphaBeta and give, in place of the value, the
\* set of the calls of min_value and max_value made on the way: the method,
\* its state and depth arguments, and what it does with the state (utility
\* at a terminal state, score at depth <= 0, else result for its actions).
RECURSIVE min_value_calls(_, _, _, _, _), max_value_calls(_, _, _, _, _)
RECURSIVE min_loop_calls(_, _, _, _, _, _, _), max_loop_calls(_, _, _, _, _, _, _)

does(state, depth) ==
  IF terminal_test(state) THEN "utility"
  ELSE IF depth <= 0 THEN "score" ELSE "result"

min_loop_calls(self, state, alpha, beta, depth, v, i) ==
  IF i > Len(actions(state)) THEN {}
  ELSE LET a  == actions(state)[i]
           v2 == min(v, max_value(self, result(state, a), alpha, beta, depth - 1))
       IN  max_value_calls(self, result(state, a), alpha, beta, depth - 1)
             \cup (IF v2 <= alpha THEN {}
                   ELSE min_loop_calls(self, state, alpha, min(beta, v2), depth, v2, i + 1))

\* the calls of a min_value that has no test of its depth
min_value_calls_NoDepthTest(self, state, alpha, beta, depth) ==
  {[fn |-> "min_value", state |-> state, depth |-> depth, does |-> does(state, depth)]}
    \cup (IF terminal_test(state) THEN {}
          ELSE min_loop_calls(self, state, alpha, beta, depth, Inf, 1))

min_value_calls(self, state, alpha, beta, depth) ==
  {[fn |-> "min_value", state |-> state, depth |-> depth, does |-> does(state, depth)]}
    \cup (IF terminal_test(state) \/ depth <= 0 THEN {}
          ELSE min_loop_calls(self, state, alpha, beta, depth, Inf, 1))

max_loop_calls(self, state, alpha, beta, depth, v, i) ==
  IF i > Len(actions(state)) THEN {}
  ELSE LET a  == actions(state)[i]
           v2 == max(v, min_value(self, result(state, a), alpha, beta, depth - 1))
       IN  min_value_calls(self, result(state, a), alpha, beta, depth - 1)
             \cup (IF v2 >= beta THEN {}
                   ELSE max_loop_calls(self, state, max(alpha, v2), beta, depth, v2, i + 1))

max_value_calls(self, state, alpha, beta, depth) ==
  {[fn |-> "max_value", state |-> state, depth |-> depth, does |-> does(state, depth)]}
    \cup (IF terminal_test(state) \/ depth <= 0 THEN {}
          ELSE max_loop_calls(self, state, alpha, beta, depth, -Inf, 1))

RECURSIVE alpha_beta_loop_calls(_, _, _, _, _, _)
alpha_beta_loop_calls(self, state, depth, alpha, beta, i) ==
  IF i > Len(actions(state)) THEN {}
  ELSE LET a == actions(state)[i]
           v == min_value(self, result(state, a), alpha, beta, depth - 1)
       IN  min_value_calls(self, result(state, a), alpha, beta, depth - 1)
             \cup alpha_beta_loop_calls(self, state, depth, max(alpha, v), beta, i + 1)

alpha_beta_search_calls(self, state, depth) ==
  alpha_beta_loop_calls(self, state, depth, -Inf, Inf, 1)

RECURSIVE Negamax_loop_calls(_, _, _, _, _, _)
Negamax_loop_calls(self, state, depth, alpha, beta, i) ==
  IF i > Len(actions(state)) THEN {}
  ELSE LET a == actions(state)[i]
           v == 1 * min_value(self, result(state, a), -1 * alpha, -1 * beta, depth - 1)
           alpha2 == max(alpha, v)
       IN  min_value_calls(self, result(state, a), -1 * alpha, -1 * beta, depth - 1)
             \cup (IF alpha2 >= beta THEN {}
                   ELSE Negamax_loop_calls(self, state, depth, alpha2, beta, i + 1))

NegamaxAlphaBeta_calls(self, state, depth) ==
  IF depth = 0 \/ terminal_test(state) THEN {}
  ELSE Negamax_loop_calls(self, state, depth, -Inf, Inf, 1)

\* ------------------------------------------------------------ game trees
\* parent vectors of the trees with n states: state 1 is the root and every
\* other state hangs below a state of smaller number, so that the children of
\* a state, taken by number, are its actions in order
ParentVecs(n) ==
  {p \in [1..n -> 0..(n - 1)] : p[1] = 0 /\ \A i \in 2..n : p[i] >= 1 /\ p[i] < i}

RECURSIVE SortedSeq(_)
SortedSeq(S) ==
  IF S = {} THEN <<>>
  ELSE LET m == CHOOSE x \in S : \A y \in S : x <= y
       IN  <<m>> \o SortedSeq(S \ {m})

RECURSIVE DepthIn(_, _)
DepthIn(p, i) == IF p[i] = 0 THEN 0 ELSE 1 + DepthIn(p, p[i])

LeavesOf(p, n) == {i \in 1..n : \A j \in 1..n : p[j] # i}

Utils == {-MaxUtil, 0, MaxUtil}

\* the game with parent vector p whose root has ply_count rootply: a terminal
\* state i has utility u[i] for player 0, a non-terminal state has utility 0,
\* and in a state i of the domain of r the player not to move reaches the
\* cells r[i], in any other state no cell
MkGame(p, n, rootply, u, r, l) ==
  [i \in 1..n |->
     [parent |-> p[i],
      acts   |-> SortedSeq({j \in 1..n : p[j] = i}),
      ply    |-> rootply + DepthIn(p, i),
      util   |-> IF i \in LeavesOf(p, n) THEN u[i] ELSE 0,
      loc    |-> l,
      reach  |-> IF i \in DOMAIN r THEN r[i] ELSE {}]]

\* k cells no player stands on and no action leads to
FreeCells(k) == {-c : c \in 1..k}

NoCall ==
  [op |-> "none", state |-> 0, depth |-> 0, alpha |-> 0, beta |-> 0, ret |-> 0,
   calls |-> {}]

\* get_action and mcts are not running, and no solver has been built
AgentIdle ==
  /\ pc = "idle" /\ queue = <<>> /\ best_move = None /\ move = None /\ searches = 0
  /\ mpc = "off" /\ mroot = 0 /\ iter_limit = 0 /\ mnodes = <<>> /\ iter = 0
  /\ mret = None
  /\ nq_solver = [N |-> 0, constraints |-> <<>>]
  /\ nq_eval = [done |-> FALSE, assignment |-> <<>>, sat |-> FALSE]

\* ---------------------------------------- the search methods, called alone
\* every game tree of at most MaxNodes states, either player to move at the
\* root, the agent being either player
InitSearch ==
  /\ \E n \in 1..MaxNodes : \E p \in ParentVecs(n) : \E rootply \in 0..1 :
       \E u \in [LeavesOf(p, n) -> Utils] :
         \E r \in [(1..n) \ LeavesOf(p, n) -> {0, MaxLib}] :
           game = MkGame(p, n, rootply, u,
                         [i \in DOMAIN r |-> FreeCells(r[i])], <<0, 1>>)
  /\ player_id \in 0..1
  /\ call = NoCall
  /\ AgentIdle

MctsVars == <<mpc, mroot, iter_limit, mnodes, iter, mret>>

AgentVars == <<pc, queue, best_move, move, searches, MctsVars>>

Call_alpha_beta_search ==
  /\ call.op = "none"
  /\ \E d \in 0..MaxDepth :
       call' = [op |-> "alpha_beta_search", state |-> 1, depth |-> d,
                alpha |-> -Inf, beta |-> Inf,
                ret |-> alpha_beta_search(player_id, 1, d),
                calls |-> alpha_beta_search_calls(player_id, 1, d)]
  /\ UNCHANGED <<QueensVars, game, player_id, AgentVars>>

Call_NegamaxAlphaBeta ==
  /\ call.op = "none"
  /\ \E d \in 0..MaxDepth :
       call' = [op |-> "NegamaxAlphaBeta", state |-> 1, depth |-> d,
                alpha |-> -Inf, beta |-> Inf,
                ret |-> NegamaxAlphaBeta(player_id, 1, d),
                calls |-> NegamaxAlphaBeta_calls(player_id, 1, d)]
  /\ UNCHANGED <<QueensVars, game, player_id, AgentVars>>

\* the values of alpha and of beta that min_value and max_value are called with
Bounds == {-Inf, 0, Inf}

Call_min_value ==
  /\ call.op = "none"
  /\ \E d \in 0..MaxDepth : \E a \in Bounds : \E b \in Bounds :
       call' = [op |-> "min_value", state |-> 1, depth |-> d, alpha |-> a, beta |-> b,
                ret |-> min_value(player_id, 1, a, b, d), calls |-> {}]
  /\ UNCHANGED <<QueensVars, game, player_id, AgentVars>>

Call_max_value ==
  /\ call.op = "none"
  /\ \E d \in 0..MaxDepth : \E a \in Bounds : \E b \in Bounds :
       call' = [op |-> "max_value", state |-> 1, depth |-> d, alpha |-> a, beta |-> b,
                ret |-> max_value(player_id, 1, a, b, d), calls |-> {}]
  /\ UNCHANGED <<QueensVars, game, player_id, AgentVars>>

\* the two searches an agent starts from a root state
NextSearch ==
  \/ Call_alpha_beta_search
  \/ Call_NegamaxAlphaBeta

SpecSearch == InitSearch /\ [][NextSearch]_vars

\* min_value and max_value called alone with a window alpha < beta, as every
\* call below alpha_beta_search has
NextWindow ==
  \/ Call_min_value /\ call'.alpha < call'.beta
  \/ Call_max_value /\ call'.alpha < call'.beta

SpecWindow == InitSearch /\ [][NextWindow]_vars

\* ------------------------------------------- the heuristics, called alone
\* the cells the players stand on: a cell the player not to move may reach
\* (a free cell), a cell the player to move may reach (state 2, the first
\* action of the root) and the cells in between, which nobody reaches
LocCells == (-MaxLib)..2

InitHeur ==
  /\ \E n \in 1..MaxHeurNodes : \E p \in ParentVecs(n) : \E rootply \in 0..1 :
       \E u \in [LeavesOf(p, n) -> Utils] :
         \E r \in [1..n -> {0, MaxLib}] :
           \E l0 \in LocCells : \E l1 \in LocCells \ {l0} :
             game = MkGame(p, n, rootply, u,
                           [i \in DOMAIN r |-> FreeCells(r[i])], <<l0, l1>>)
  /\ player_id \in 0..1
  /\ call = NoCall
  /\ AgentIdle

Call_score ==
  /\ call.op = "none"
  /\ \E s \in Nodes :
       call' = [op |-> "score", state |-> s, depth |-> 0, alpha |-> 0, beta |-> 0,
                ret |-> score(player_id, s), calls |-> {}]
  /\ UNCHANGED <<QueensVars, game, player_id, AgentVars>>

Call_score2 ==
  /\ call.op = "none"
  /\ \E s \in Nodes :
       call' = [op |-> "score2", state |-> s, depth |-> 0, alpha |-> 0, beta |-> 0,
                ret |-> score2(player_id, s), calls |-> {}]
  /\ UNCHANGED <<QueensVars, game, player_id, AgentVars>>

Call_custom_heuristic ==
  /\ call.op = "none"
  /\ \E s \in Nodes :
       call' = [op |-> "custom_heuristic", state |-> s, depth |-> 0, alpha |-> 0,
                beta |-> 0, ret |-> custom_heuristic(player_id, s), calls |-> {}]
  /\ UNCHANGED <<QueensVars, game, player_id, AgentVars>>

NextHeur ==
  \/ Call_score
  \/ Call_score2
  \/ Call_custom_heuristic
  \/ Call_min_value
  \/ Call_max_value

SpecHeur == InitHeur /\ [][NextHeur]_vars

\* ------------------------------------------ Monte Carlo tree search nodes
\* a node of the search tree; nodes are named by their place in the sequence
\* of nodes, parent 0 and action 0 standing for "none"
MCTS_Node(state, parent, action) ==
  [state |-> state, parent |-> parent, action |-> action, children |-> <<>>,
   children_actions |-> <<>>, visits |-> 0, reward |-> 0]

\* the actions of a node's state that have no child yet
unexplored(nodes, id) ==
  Range(actions(nodes[id].state)) \ Range(nodes[id].children_actions)

RECURSIVE tree_policy(_, _)
\* the descents the tree policy can make from node id: it stops at a terminal
\* state (expand = 0) or at a node with an unexplored action, which it
\* expands; below a fully expanded node it goes on into one of the children.
\* At a terminal state, where there is nothing to expand and no child to go
\* into, it gives that node or no node at all (node = None)
tree_policy(nodes, id) ==
  IF terminal_test(nodes[id].state)
  THEN {[node |-> id, expand |-> 0], [node |-> None, expand |-> 0]}
  ELSE IF unexplored(nodes, id) # {}
       THEN {[node |-> id, expand |-> a] : a \in unexplored(nodes, id)}
  ELSE UNION {tree_policy(nodes, c) : c \in Range(nodes[id].children)}

\* the tree with a new child of node id for action a, as the last node
expand(nodes, id, a) ==
  Append([nodes EXCEPT ![id].children = Append(@, Len(nodes) + 1),
                       ![id].children_actions = Append(@, a)],
         MCTS_Node(result(nodes[id].state, a), id, a))

RECURSIVE TerminalsBelow(_)
\* the terminal states a sequence of legal actions can reach from state
TerminalsBelow(state) ==
  IF terminal_test(state) THEN {state}
  ELSE UNION {TerminalsBelow(result(state, a)) : a \in Range(actions(state))}

\* the rewards a random rollout from state can give: the utility of the
\* terminal state it ends in, for the player to move at state
default_policy(state) ==
  {utility(t, player(state)) : t \in TerminalsBelow(state)}

RECURSIVE backup(_, _, _)
\* one more visit for node id and each of its ancestors, the reward added
\* with its sign flipped at each level
backup(nodes, id, reward) ==
  IF id = 0 THEN nodes
  ELSE backup([nodes EXCEPT ![id].visits = @ + 1, ![id].reward = @ + reward],
              nodes[id].parent, -reward)

\* the child of node id with the most visits, the first of them on a tie
best_child(nodes, id) ==
  LET ch == nodes[id].children
      i  == CHOOSE k \in 1..Len(ch) :
              /\ \A j \in 1..Len(ch) : nodes[ch[j]].visits <= nodes[ch[k]].visits
              /\ \A j \in 1..(k - 1) : nodes[ch[j]].visits < nodes[ch[k]].visits
  IN  ch[i]

\* list.index: the first place of x in q
index(q, x) == CHOOSE i \in 1..Len(q) : q[i] = x /\ \A j \in 1..(i - 1) : q[j] # x

\* ------------------------------------------------------------------ mcts
\* mcts returning the index of the best child in place of its action
mcts_select_Index(nodes) ==
  IF nodes[1].children = <<>> THEN Raised
  ELSE index(nodes[1].children, best_child(nodes, 1))

\* mcts giving no action (None) unless the root has two children to compare
mcts_select_NeedsTwo(nodes) ==
  IF nodes[1].children = <<>> THEN Raised
  ELSE IF Len(nodes[1].children) < 2 THEN None
  ELSE LET idx == index(nodes[1].children, best_child(nodes, 1))
       IN  nodes[1].children_actions[idx]

\* mcts reading children_actions one place before the best child's (Python
\* takes place -1, the last one, for the first child)
mcts_select_Previous(nodes) ==
  IF nodes[1].children = <<>> THEN Raised
  ELSE LET idx == index(nodes[1].children, best_child(nodes, 1))
       IN  nodes[1].children_actions[IF idx = 1 THEN Len(nodes[1].children) ELSE idx - 1]

\* the two statements after the for loop of mcts:
\*   idx = root.children.index(best_child(root)); return root.children_actions[idx]
\* index raises on a list without elements
mcts_select(nodes) ==
  IF nodes[1].children = <<>> THEN Raised
  ELSE LET idx == index(nodes[1].children, best_child(nodes, 1))
       IN  nodes[1].children_actions[idx]

\* mcts going on with the tree of the invocation before, if there is one
mcts_enter_KeepTree(state, limit) ==
  /\ mpc' = "loop" /\ mroot' = state /\ iter_limit' = limit
  /\ mnodes' = IF mpc = "done" THEN mnodes ELSE <<MCTS_Node(state, 0, 0)>>
  /\ iter' = 0 /\ mret' = None

\* mcts(state, iter_limit) entered: root = MCTS_Node(state)
mcts_enter(state, limit) ==
  /\ mpc' = "loop" /\ mroot' = state /\ iter_limit' = limit
  /\ mnodes' = <<MCTS_Node(state, 0, 0)>> /\ iter' = 0 /\ mret' = None

\* a pass of the for loop that calls backup(child, reward) twice
Mcts_iteration_BackupTwice ==
  /\ mpc = "loop" /\ iter < iter_limit /\ pc \in {"idle", "mcts"}
  /\ \E tp \in tree_policy(mnodes, 1) :
       LET nodes1 == IF tp.expand # 0 THEN expand(mnodes, tp.node, tp.expand)
                     ELSE mnodes
           child  == IF tp.expand # 0 THEN Len(nodes1) ELSE tp.node
       IN  IF child = None
           THEN mnodes' = mnodes
           ELSE \E reward \in default_policy(nodes1[child].state) :
                  mnodes' = backup(backup(nodes1, child, reward), child, reward)
  /\ iter' = iter + 1
  /\ UNCHANGED <<QueensVars, game, player_id, call, pc, queue, best_move, move, searches,
                 mpc, mroot, iter_limit, mret>>

\* a pass of the for loop that calls tree_policy(root) twice and backs up
\* from the second node
Mcts_iteration_TwoDescents ==
  /\ mpc = "loop" /\ iter < iter_limit /\ pc \in {"idle", "mcts"}
  /\ \E tp0 \in tree_policy(mnodes, 1) :
       LET nodes0 == IF tp0.expand # 0 THEN expand(mnodes, tp0.node, tp0.expand)
                     ELSE mnodes
       IN  \E tp \in tree_policy(nodes0, 1) :
             LET nodes1 == IF tp.expand # 0 THEN expand(nodes0, tp.node, tp.expand)
                           ELSE nodes0
                 child  == IF tp.expand # 0 THEN Len(nodes1) ELSE tp.node
             IN  IF child = None
                 THEN mnodes' = nodes0
                 ELSE \E reward \in default_policy(nodes1[child].state) :
                        mnodes' = backup(nodes1, child, reward)
  /\ iter' = iter + 1
  /\ UNCHANGED <<QueensVars, game, player_id, call, pc, queue, best_move, move, searches,
                 mpc, mroot, iter_limit, mret>>

\* one pass of the for loop: child = tree_policy(root); if not child:
\* continue (the pass is used up and the tree is as it was); else
\* reward = default_policy(child.state); backup(child, reward)
Mcts_iteration ==
  /\ mpc = "loop" /\ iter < iter_limit /\ pc \in {"idle", "mcts"}
  /\ \E tp \in tree_policy(mnodes, 1) :
       LET nodes1 == IF tp.expand # 0 THEN expand(mnodes, tp.node, tp.expand)
                     ELSE mnodes
           child  == IF tp.expand # 0 THEN Len(nodes1) ELSE tp.node
       IN  IF child = None
           THEN mnodes' = mnodes
           ELSE \E reward \in default_policy(nodes1[child].state) :
                  mnodes' = backup(nodes1, child, reward)
  /\ iter' = iter + 1
  /\ UNCHANGED <<QueensVars, game, player_id, call, pc, queue, best_move, move, searches,
                 mpc, mroot, iter_limit, mret>>

\* mcts leaving its for loop after the first pass
Mcts_return_AfterFirstPass ==
  /\ mpc = "loop" /\ (iter = iter_limit \/ iter >= 1) /\ pc \in {"idle", "mcts"}
  /\ mret' = mcts_select(mnodes)
  /\ mpc' = "done"
  /\ UNCHANGED <<QueensVars, game, player_id, call, pc, queue, best_move, move, searches,
                 mroot, iter_limit, mnodes, iter>>

\* the for loop is over: mcts returns an action or raises
Mcts_return ==
  /\ mpc = "loop" /\ iter = iter_limit /\ pc \in {"idle", "mcts"}
  /\ mret' = mcts_select(mnodes)
  /\ mpc' = "done"
  /\ UNCHANGED <<QueensVars, game, player_id, call, pc, queue, best_move, move, searches,
                 mroot, iter_limit, mnodes, iter>>

\* mcts called alone on the root state of the game, with any iteration budget
Call_mcts ==
  /\ pc = "idle" /\ call.op = "none" /\ mpc = "off"
  /\ \E limit \in 0..IterLimit :
       /\ call' = [op |-> "mcts", state |-> 1, depth |-> limit, alpha |-> 0, beta |-> 0,
                   ret |-> None, calls |-> {}]
       /\ mcts_enter(1, limit)
  /\ UNCHANGED <<QueensVars, game, player_id, pc, queue, best_move, move, searches>>

\* ------------------------------------------------------------ get_action
\* what self.queue.put(x) returns
put_returns == None

\* get_action(state) from its entry to its first search: below ply 2 it puts
\* random.choice(state.actions()) and returns (random.choice raises on a list
\* without elements, outside the try); from ply 2 on it sets best_move = []
\* and calls self.mcts(state)
GetAction_start ==
  /\ pc = "idle" /\ call.op = "none" /\ mpc = "off"
  /\ IF ply_count(1) < 2
     THEN /\ IF actions(1) = <<>>
             THEN pc' = "raised" /\ queue' = queue
             ELSE \E a \in Range(actions(1)) :
                    queue' = Append(queue, a) /\ pc' = "done"
          /\ UNCHANGED <<best_move, move, searches, MctsVars>>
     ELSE /\ best_move' = EmptyList
          /\ pc' = "mcts"
          /\ mcts_enter(1, IterLimit)
          /\ UNCHANGED <<queue, move, searches>>
  /\ UNCHANGED <<QueensVars, game, player_id, call>>

\* self.mcts(state) is over.  If it raised, the bare except returns best_move.
\* Else move = self.queue.put(result); if move == None: return best_move;
\* else best_move = move and the loop calls self.mcts(state) again
GetAction_after_mcts ==
  /\ pc = "mcts" /\ mpc = "done"
  /\ IF mret = Raised
     THEN /\ pc' = "done"
          /\ UNCHANGED <<queue, best_move, move, searches, MctsVars>>
     ELSE /\ queue' = Append(queue, mret)
          /\ searches' = searches + 1
          /\ move' = put_returns
          /\ IF put_returns = None
             THEN pc' = "done" /\ UNCHANGED <<best_move, MctsVars>>
             ELSE /\ best_move' = put_returns
                  /\ pc' = "mcts"
                  /\ mcts_enter(1, IterLimit)
  /\ UNCHANGED <<QueensVars, game, player_id, call>>

\* the caller's deadline: get_action is abandoned in the middle of a search
Interrupt ==
  /\ pc = "mcts"
  /\ pc' = "interrupted"
  /\ UNCHANGED <<QueensVars, game, player_id, call, queue, best_move, move, searches, MctsVars>>

\* every game tree of at most MaxMctsNodes states whose root has a ply_count
\* of 0..MaxPly
Init ==
  /\ \E n \in 1..MaxMctsNodes : \E p \in ParentVecs(n) : \E rootply \in 0..MaxPly :
       \E u \in [LeavesOf(p, n) -> Utils] :
         game = MkGame(p, n, rootply, u, <<>>, <<0, 1>>)
  /\ player_id \in 0..1
  /\ call = NoCall
  /\ AgentIdle

Next ==
  \/ GetAction_start
  \/ GetAction_after_mcts
  \/ Interrupt
  \/ Call_mcts
  \/ Mcts_iteration
  \/ Mcts_return

Spec == Init /\ [][Next]_vars

\* mcts called again on the same state with the same budget, once the first
\* call has returned; call.ret keeps what the first call returned
Call_mcts_again ==
  /\ pc = "idle" /\ call.op = "mcts" /\ call.ret = None /\ mpc = "done"
  /\ call' = [call EXCEPT !.ret = mret]
  /\ mcts_enter(call.state, call.depth)
  /\ UNCHANGED <<QueensVars, game, player_id, pc, queue, best_move, move, searches>>

\* one call of a search method or of a heuristic on an agent at rest
SearchCall ==
  /\ pc = "idle" /\ mpc = "off"
  /\ \/ Call_alpha_beta_search
     \/ Call_NegamaxAlphaBeta
     \/ Call_min_value
     \/ Call_max_value
     \/ Call_score
     \/ Call_score2
     \/ Call_custom_heuristic

NextAll ==
  \/ Next
  \/ Call_mcts_again
  \/ SearchCall

\* get_action, mcts called once or twice, or one call of another method
SpecAll == Init /\ [][NextAll]_vars

\* a running mcts goes on: the body of its for loop and the statements after
\* it wait for nothing (single-threaded code, no blocking call)
SpecFair == Spec /\ WF_vars(Mcts_iteration) /\ WF_vars(Mcts_return)

\* ------------------------------------- N-Queens (constraint notebook)
\* Abs of the notebook: If(x >= 0, x, -x)
Abs(x) == IF x >= 0 THEN x ELSE -x

\* Python's abs
abs(x) == IF x < 0 THEN -x ELSE x

\* the queens are Q0 .. Q(N-1), one per column; a constraint is a record
\*   ge0:      0 <= Q_i            ltN:  Q_i < k
\*   Distinct: the Q_i, i < k, differ pairwise
\*   diag:     Abs(Q_i - Q_j) != k
\* the valid range constraints, in the order chain() gives them
range_constraints(N) ==
  [t \in 1..(2 * N) |->
     IF t % 2 = 1 THEN [op |-> "ge0", i |-> (t - 1) \div 2, j |-> 0, k |-> 0]
     ELSE [op |-> "ltN", i |-> (t - 1) \div 2, j |-> 0, k |-> N]]

\* the different diagonal constraints, in the order of the two for loops:
\* every i and every j other than i
diagonal_constraints(N) ==
  [t \in 1..(N * (N - 1)) |->
     LET i == (t - 1) \div (N - 1)
         r == (t - 1) % (N - 1)
         j == IF r < i THEN r ELSE r + 1
     IN  [op |-> "diag", i |-> i, j |-> j, k |-> abs(i - j)]]

\* nqueens leaving out the different row constraint
nqueens_NoDistinct(N) ==
  range_constraints(N) \o diagonal_constraints(N)

\* the constraints nqueens(N) adds to its solver, in order
nqueens(N) ==
  range_constraints(N)
    \o <<[op |-> "Distinct", i |-> 0, j |-> 0, k |-> N]>>
    \o diagonal_constraints(N)

\* constraint c under the assignment q of rows to the queens
Holds(c, q) ==
  CASE c.op = "ge0" -> 0 <= q[c.i]
    [] c.op = "ltN" -> q[c.i] < c.k
    [] c.op = "Distinct" ->
         \A i \in 0..(c.k - 1) : \A j \in 0..(c.k - 1) : i # j => q[i] # q[j]
    [] c.op = "diag" -> Abs(q[c.i] - q[c.j]) # c.k

\* the assignment q satisfies every constraint of the solver
SatisfiesAll(solver, q) ==
  \A t \in 1..Len(solver.constraints) : Holds(solver.constraints[t], q)

Call_nqueens ==
  /\ nq_solver.N = 0
  /\ \E N \in 4..MaxQueens :
       nq_solver' = [N |-> N, constraints |-> nqueens(N)]
  /\ UNCHANGED <<nq_eval, game, player_id, call, AgentVars>>

\* an assignment of rows, some of them off the board, tried against the solver
Check_assignment ==
  /\ nq_solver.N # 0 /\ ~nq_eval.done
  /\ \E q \in [0..(nq_solver.N - 1) -> (-1)..nq_solver.N] :
       nq_eval' = [done |-> TRUE, assignment |-> q, sat |-> SatisfiesAll(nq_solver, q)]
  /\ UNCHANGED <<nq_solver, game, player_id, call, AgentVars>>

InitQueens ==
  /\ game = <<>>
  /\ player_id = 0
  /\ call = NoCall
  /\ AgentIdle

NextQueens ==
  \/ Call_nqueens
  \/ Check_assignment

SpecQueens == InitQueens /\ [][NextQueens]_vars

\* ------------------------------------- reference: minimax without pruning
\* exhaustive depth-limited minimax over the same tree: the same action order,
\* score at depth 0 and utility at terminal states, no alpha and no beta
RECURSIVE minimax_min(_, _, _), minimax_max(_, _, _)

SetMin(S) == CHOOSE x \in S : \A y \in S : x <= y

SetMax(S) == CHOOSE x \in S : \A y \in S : x >= y

minimax_min(self, state, depth) ==
  IF terminal_test(state) THEN utility(state, self)
  ELSE IF depth <= 0 THEN score(self, state)
  ELSE SetMin({minimax_max(self, result(state, a), depth - 1) : a \in Range(actions(state))})

minimax_max(self, state, depth) ==
  IF terminal_test(state) THEN utility(state, self)
  ELSE IF depth <= 0 THEN score(self, state)
  ELSE SetMax({minimax_min(self, result(state, a), depth - 1) : a \in Range(actions(state))})

\* the value of the root for the agent, the root being a maximising state
minimax_value(self, state, depth) ==
  SetMax({minimax_min(self, result(state, a), depth - 1) : a \in Range(actions(state))})

\* the root actions an exhaustive minimax can choose, whatever its tie-break
minimax_actions(self, state, depth) ==
  {a \in Range(actions(state)) :
     minimax_min(self, result(state, a), depth - 1) = minimax_value(self, state, depth)}

\* ---------------------------------------------------------------- claims
\* C1: for every game tree and every depth d >= 1, alpha_beta_search(state, d)
\* returns an action an unpruned exhaustive depth-d minimax chooses, and its
\* best_score is the minimax value of the state.
C1_AlphaBetaEqualsMinimax ==
  (call.op = "alpha_beta_search" /\ call.depth >= 1 /\ ~terminal_test(call.state)) =>
    /\ call.ret \in minimax_actions(player_id, call.state, call.depth)
    /\ alpha_beta_locals(player_id, call.state, call.depth).best_score
         = minimax_value(player_id, call.state, call.depth)

\* C2: for every state and depth, NegamaxAlphaBeta chooses the action that
\* alpha_beta_search chooses on the same state and depth.
C2_NegamaxEqualsAlphaBeta ==
  (call.op = "NegamaxAlphaBeta" /\ call.depth >= 1 /\ ~terminal_test(call.state)) =>
    call.ret = alpha_beta_search(player_id, call.state, call.depth)

\* C6: alpha_beta_search on a state whose actions() is empty returns the
\* no-action sentinel (-1, -1), and returns normally.
C6_NoActionsGivesSentinel ==
  (call.op = "alpha_beta_search" /\ actions(call.state) = <<>>) => call.ret = Sentinel

\* C6 witness: alpha_beta_search has returned on a state without actions
C6_Witness ==
  call.op = "alpha_beta_search" /\ actions(call.state) = <<>> /\ call.depth = 3
    /\ call.ret = Sentinel
\* C8: custom_heuristic on a non-terminal state in which the opponent reaches
\* no cell returns a finite score and raises no division-by-zero error.
C8_NoOpponentMovesIsFinite ==
  (call.op = "custom_heuristic" /\ ~terminal_test(call.state)
     /\ actions_of(call.state, 1 - player_id) = {}) =>
    (call.ret # Raised /\ call.ret > -Inf /\ call.ret < Inf)

\* C8 witness: custom_heuristic has returned on a non-terminal state whose
\* opponent reaches no cell while the agent reaches two
C8_Witness ==
  /\ call.op = "custom_heuristic" /\ ~terminal_test(call.state)
  /\ actions_of(call.state, 1 - player_id) = {}
  /\ Cardinality(actions_of(call.state, player_id)) = 2
  /\ call.ret = 2

\* C9: on every non-terminal state the liberty-difference score for player p
\* is the negation of the liberty-difference score for player 1 - p.
C9_ScoreAntisymmetric ==
  (call.op = "score" /\ ~terminal_test(call.state)) =>
    call.ret = -score(1 - player_id, call.state)

\* C9 witness: score has returned 2 on a non-terminal state, the agent
\* reaching two cells and the opponent none
C9_Witness ==
  /\ call.op = "score" /\ ~terminal_test(call.state)
  /\ call.ret = 2
  /\ score(1 - player_id, call.state) = -2

\* C10: at a terminal state custom_heuristic returns exactly
\* utility(player_id), and so do min_value and max_value whatever the depth
\* left and the bounds alpha and beta.
C10_TerminalIsUtility ==
  (call.op \in {"custom_heuristic", "min_value", "max_value"}
     /\ terminal_test(call.state)) =>
    call.ret = utility(call.state, player_id)

\* C10 witness: custom_heuristic has returned the utility of a won terminal
\* state on which the bonus term would apply
C10_Witness ==
  /\ call.op = "custom_heuristic" /\ terminal_test(call.state)
  /\ locs(call.state)[player_id] \in actions_of(call.state, 1 - player_id)
  /\ call.ret = MaxUtil

\* the state get_action and mcts are called with
root_state == 1

\* C3: in every call of get_action on a state with at least one legal action,
\* an action is on the queue before the first search completes: an
\* interruption during that search finds at least one submitted action.
C3_SubmittedBeforeFirstSearch ==
  (pc \in {"mcts", "interrupted"} /\ searches = 0 /\ actions(root_state) # <<>>) =>
    queue # <<>>

\* C4: every value get_action has put on the queue is a member of
\* state.actions(); None and the result of queue.put are never put.
C4_SubmissionsAreActions ==
  \A i \in 1..Len(queue) : queue[i] \in Range(actions(root_state))

\* C4 witness: get_action has put the action mcts chose out of several
C4_Witness ==
  /\ pc = "done" /\ searches = 1 /\ Len(queue) = 1
  /\ Len(actions(root_state)) >= 2
  /\ queue[1] = actions(root_state)[2]

\* C5: an uninterrupted get_action goes on searching after a completed search
\* whose result it has submitted: it does not return after its first search.
C5_KeepsSearching ==
  ~(pc = "done" /\ searches = 1)

\* C7: mcts on a root state without legal actions signals "no move
\* available" whatever its iteration budget, and raises nothing.
C7_MctsNoMovesNoFault ==
  (mpc = "done" /\ actions(mroot) = <<>>) => mret # Raised

\* C11: mcts with an iteration budget of at least 1 on a root state with
\* exactly one legal action returns that action, whatever the rollouts give.
C11_SingleActionIsReturned ==
  (mpc = "done" /\ iter_limit >= 1 /\ Len(actions(mroot)) = 1) =>
    mret = actions(mroot)[1]

\* C11 witness: mcts has returned the only action of its root after a full
\* budget of iterations whose rollouts did not all end alike
C11_Witness ==
  /\ mpc = "done" /\ iter_limit = IterLimit /\ Len(actions(mroot)) = 1
  /\ mret = actions(mroot)[1]
  /\ mnodes[1].visits = IterLimit
  /\ mnodes[1].reward \in {-1, 0, 1}

\* a valid N-queens placement: one queen per column, q[i] the row of the queen
\* of column i; every row is on the board, no two queens share a row and no
\* two queens share a diagonal
ValidPlacement(q, N) ==
  /\ \A i \in 0..(N - 1) : q[i] \in 0..(N - 1)
  /\ \A i \in 0..(N - 1) : \A j \in (i + 1)..(N - 1) :
       /\ q[i] # q[j]
       /\ q[i] - q[j] # i - j
       /\ q[i] - q[j] # j - i

\* C12: for every N >= 4 in the range tried, an assignment of rows satisfies
\* all constraints added by nqueens(N) exactly when it is a valid N-queens
\* placement, and some assignment satisfies them.
C12_NQueensExact ==
  /\ nq_eval.done =>
       (nq_eval.sat <=> ValidPlacement(nq_eval.assignment, nq_solver.N))
  /\ (nq_solver.N # 0 /\ ~nq_eval.done) =>
       \E q \in [0..(nq_solver.N - 1) -> 0..(nq_solver.N - 1)] :
         SatisfiesAll(nq_solver, q)

\* C12 witness: the placement 1, 3, 0, 2 has been found to satisfy the
\* constraints of nqueens(4)
C12_Witness ==
  /\ nq_solver.N = 4 /\ nq_eval.done /\ nq_eval.sat
  /\ nq_eval.assignment = [i \in 0..3 |-> <<1, 3, 0, 2>>[i + 1]]

\* C13: alpha_beta_search returns the no-action sentinel only when the root
\* has no legal action: on a root with at least one action and a depth >= 1
\* it returns a member of state.actions(), also when every action is a
\* forced loss.
C13_SentinelOnlyWithoutActions ==
  (call.op = "alpha_beta_search" /\ call.depth >= 1 /\ actions(call.state) # <<>>) =>
    call.ret \in Range(actions(call.state))

\* C13 witness: alpha_beta_search has returned an action of a root whose two
\* actions both lead to a lost terminal state
C13_Witness ==
  /\ call.op = "alpha_beta_search" /\ call.depth >= 1
  /\ Len(actions(call.state)) = 2
  /\ \A a \in Range(actions(call.state)) :
       terminal_test(result(call.state, a))
         /\ utility(result(call.state, a), player_id) = -MaxUtil
  /\ call.ret \in Range(actions(call.state))

\* the first action, in the order of actions(), among those of maximal
\* depth-limited minimax value
minimax_first_action(self, state, depth) ==
  LET i == CHOOSE k \in 1..Len(actions(state)) :
             /\ actions(state)[k] \in minimax_actions(self, state, depth)
             /\ \A j \in 1..(k - 1) :
                  actions(state)[j] \notin minimax_actions(self, state, depth)
  IN  actions(state)[i]

\* C14: when several root actions share the maximal depth-limited minimax
\* value, alpha_beta_search returns the first of them in the order of
\* state.actions().
C14_TiesKeepFirstAction ==
  (call.op = "alpha_beta_search" /\ call.depth >= 1 /\ actions(call.state) # <<>>) =>
    call.ret = minimax_first_action(player_id, call.state, call.depth)

\* C15: at a terminal state, or with no depth left, NegamaxAlphaBeta returns
\* the utility (at a terminal state) or the heuristic of the state signed for
\* the player whose turn it is there.
C15_NegamaxSignedForMover ==
  (call.op = "NegamaxAlphaBeta" /\ (terminal_test(call.state) \/ call.depth = 0)) =>
    call.ret = IF terminal_test(call.state)
               THEN utility(call.state, player(call.state))
               ELSE score(player(call.state), call.state)

\* every entry of children is the node made for the entry of
\* children_actions at the same place
IndexAligned(nodes) ==
  \A id \in 1..Len(nodes) :
    /\ Len(nodes[id].children) = Len(nodes[id].children_actions)
    /\ \A i \in 1..Len(nodes[id].children) :
         LET c == nodes[id].children[i]
         IN  /\ c \in 1..Len(nodes)
             /\ nodes[c].parent = id
             /\ nodes[c].action = nodes[id].children_actions[i]
             /\ nodes[c].state = result(nodes[id].state, nodes[id].children_actions[i])

\* C16: children and children_actions stay index-aligned, and mcts returns
\* the action stored at the place of the root child that has the highest
\* visit count, the one of lowest index among equals.
C16_ReturnsActionOfMostVisited ==
  /\ mpc # "off" => IndexAligned(mnodes)
  /\ (mpc = "done" /\ mnodes[1].children # <<>>) =>
       \E i \in 1..Len(mnodes[1].children) :
         /\ mret = mnodes[1].children_actions[i]
         /\ mnodes[mnodes[1].children[i]].state = result(mroot, mret)
         /\ \A j \in 1..Len(mnodes[1].children) :
              mnodes[mnodes[1].children[j]].visits <= mnodes[mnodes[1].children[i]].visits
         /\ \A j \in 1..(i - 1) :
              mnodes[mnodes[1].children[j]].visits < mnodes[mnodes[1].children[i]].visits

\* C16 witness: mcts has returned the action of the first of two root
\* children with equal visit counts
C16_Witness ==
  /\ mpc = "done" /\ Len(mnodes[1].children) = 2
  /\ mnodes[mnodes[1].children[1]].visits = mnodes[mnodes[1].children[2]].visits
  /\ mnodes[mnodes[1].children[1]].visits >= 1
  /\ mret = mnodes[1].children_actions[1]

RECURSIVE PathToRoot(_, _)
\* node id and its ancestors
PathToRoot(nodes, id) ==
  IF id = 0 THEN {} ELSE {id} \cup PathToRoot(nodes, nodes[id].parent)

RECURSIVE SumVisits(_, _)
\* the visit counts of the nodes listed in ch, added up
SumVisits(nodes, ch) ==
  IF ch = <<>> THEN 0 ELSE nodes[Head(ch)].visits + SumVisits(nodes, Tail(ch))

\* visits and reward of node id in nodes, 0 for a node not yet made
VisitsIn(nodes, id) == IF id \in 1..Len(nodes) THEN nodes[id].visits ELSE 0
RewardIn(nodes, id) == IF id \in 1..Len(nodes) THEN nodes[id].reward ELSE 0

\* passing from old to new is one backup from node c: one more visit for
\* the nodes from c up to the root and for no other, and a reward r added at
\* c, -r at its parent, r again above, and so on
BackupFrom(old, new, c) ==
  LET r == new[c].reward - RewardIn(old, c)
      path == PathToRoot(new, c)
  IN  \A id \in 1..Len(new) :
        IF id \in path
        THEN /\ new[id].visits = VisitsIn(old, id) + 1
             /\ new[id].reward - RewardIn(old, id) =
                  IF Cardinality(PathToRoot(new, c) \ PathToRoot(new, id)) % 2 = 0
                  THEN r ELSE -r
        ELSE /\ new[id].visits = VisitsIn(old, id)
             /\ new[id].reward = RewardIn(old, id)

\* C17: a pass of the loop of mcts that reaches backup is one backup (one
\* more visit on the path from the expanded node to the root only, the reward
\* with alternating sign), and a skipped pass, which needs a terminal state
\* in the tree, changes nothing; so the root has one visit for each pass that
\* reached backup, never more than the passes made, and no node has fewer
\* visits than its children together.
C17_BackupCountsVisits ==
  /\ [](mpc # "off" =>
         /\ mnodes[1].visits <= iter
         /\ \A id \in 1..Len(mnodes) :
              mnodes[id].visits >= SumVisits(mnodes, mnodes[id].children))
  /\ [][iter' = iter + 1 =>
          IF mnodes' = mnodes
          THEN \E id \in 1..Len(mnodes) : terminal_test(mnodes[id].state)
          ELSE /\ \E c \in 1..Len(mnodes') : BackupFrom(mnodes, mnodes', c)
               /\ mnodes'[1].visits = mnodes[1].visits + 1]_vars

\* C17 witness: three passes are over, the root has three visits, and a
\* grandchild of the root has been backed up with a reward other than 0
C17_Witness ==
  /\ mpc = "loop" /\ iter = 3 /\ mnodes[1].visits = 3
  /\ \E id \in 1..Len(mnodes) :
       /\ mnodes[id].parent > 1
       /\ mnodes[id].reward # 0
       /\ mnodes[mnodes[id].parent].reward = -mnodes[id].reward

\* the nodes form a tree rooted at node 1: every other node is listed once,
\* by its parent only, and no node has two children for one action
IsTree(nodes) ==
  /\ nodes[1].parent = 0
  /\ \A id \in 2..Len(nodes) :
       /\ nodes[id].parent \in 1..(id - 1)
       /\ \A p \in 1..Len(nodes) :
            Cardinality({i \in 1..Len(nodes[p].children) : nodes[p].children[i] = id})
              = IF p = nodes[id].parent THEN 1 ELSE 0
  /\ \A id \in 1..Len(nodes) :
       /\ Range(nodes[id].children_actions) \subseteq Range(actions(nodes[id].state))
       /\ \A i, j \in 1..Len(nodes[id].children_actions) :
            nodes[id].children_actions[i] = nodes[id].children_actions[j] => i = j

\* the nodes a backup from old to new can have started at: a node with one
\* more visit and no child with more visits
BackedUpLeaf(old, new) ==
  {c \in 1..Len(new) :
     /\ new[c].visits = VisitsIn(old, c) + 1
     /\ \A d \in Range(new[c].children) : new[d].visits = VisitsIn(old, d)}

\* C18: a pass of the loop of mcts ends its descent at a terminal state
\* (backed up from, or skipped with the tree as it was) or at a node it has
\* just expanded, and adds at most one node; the nodes always form a tree,
\* and after k passes there are at most k + 1 of them.
C18_TreeGrowsByOne ==
  /\ [](mpc # "off" => IsTree(mnodes) /\ Len(mnodes) <= iter + 1)
  /\ [][iter' = iter + 1 =>
          /\ Len(mnodes') \in {Len(mnodes), Len(mnodes) + 1}
          /\ \A id \in 1..Len(mnodes) :
               /\ mnodes'[id].state = mnodes[id].state
               /\ mnodes'[id].parent = mnodes[id].parent
               /\ Len(mnodes'[id].children) <= Len(mnodes[id].children) + 1
          /\ IF mnodes' = mnodes
             THEN \E id \in 1..Len(mnodes) : terminal_test(mnodes[id].state)
             ELSE IF Len(mnodes') = Len(mnodes)
             THEN \E c \in BackedUpLeaf(mnodes, mnodes') :
                    terminal_test(mnodes'[c].state)
             ELSE /\ BackedUpLeaf(mnodes, mnodes') = {Len(mnodes')}
                  /\ mnodes'[Len(mnodes')].children = <<>>
                  /\ mnodes'[Len(mnodes')].visits = 1]_vars

\* C18 witness: the last pass ended at a terminal state already in the tree,
\* so that three passes have made fewer than four nodes
C18_Witness ==
  /\ mpc = "loop" /\ iter = 3 /\ Len(mnodes) = 3
  /\ \E id \in 2..Len(mnodes) :
       terminal_test(mnodes[id].state) /\ mnodes[id].visits = 2

\* C19: an invocation of mcts with budget n ends unless its caller is
\* interrupted: every rollout has a terminal state to end in, the loop makes
\* exactly n passes, each counted once, a skipped one too, and the action is
\* selected once, after the last pass.
C19_MctsTerminates ==
  /\ [](mpc # "off" =>
         /\ iter \in 0..iter_limit
         /\ \A id \in 1..Len(mnodes) :
              /\ TerminalsBelow(mnodes[id].state) # {}
              /\ \A t \in TerminalsBelow(mnodes[id].state) : terminal_test(t)
         /\ mpc = "done" => iter = iter_limit)
  /\ [][/\ (mpc = "loop" /\ mpc' = "loop" /\ iter' # iter) => iter' = iter + 1
        /\ mret' # mret => (mpc = "loop" /\ iter = iter_limit /\ mpc' = "done")
        /\ (mpc = "done" /\ mpc' = "done") => (mret' = mret /\ mnodes' = mnodes)]_vars
  /\ (mpc = "loop") ~> (mpc = "done" \/ pc = "interrupted")

\* C19 witness: mcts has ended with an action after its full budget of three
\* passes, one of them skipped: the root has two visits
C19_Witness ==
  /\ mpc = "done" /\ iter_limit = 3 /\ iter = 3
  /\ mnodes[1].visits = 2
  /\ mret \in Range(actions(mroot))

\* C20: no call leaves state behind. Every invocation of mcts starts from a
\* new root without children and with zero visits, whatever tree an earlier
\* invocation built; no step changes the game state or the agent's
\* player_id, and a call of alpha_beta_search, NegamaxAlphaBeta, min_value,
\* max_value, mcts or a heuristic leaves the agent's queue untouched.
C20_NoStateLeftBehind ==
  [][/\ game' = game /\ player_id' = player_id
     /\ (mpc # "loop" /\ mpc' = "loop") =>
          /\ iter' = 0
          /\ Len(mnodes') = 1
          /\ mnodes'[1].state = mroot' /\ mnodes'[1].parent = 0
          /\ mnodes'[1].children = <<>> /\ mnodes'[1].children_actions = <<>>
          /\ mnodes'[1].visits = 0 /\ mnodes'[1].reward = 0
     /\ (pc' = pc /\ (call' # call \/ mnodes' # mnodes \/ mret' # mret)) =>
          (queue' = queue /\ best_move' = best_move /\ searches' = searches)]_vars

\* C20 witness: a second invocation of mcts has started on a new root after
\* the first one built a tree of three nodes or more and returned an action
C20_Witness ==
  /\ call.op = "mcts" /\ call.ret \in Range(actions(call.state))
  /\ call.depth >= 2 /\ Len(actions(call.state)) >= 2
  /\ mpc = "loop" /\ iter = 0
  /\ Len(mnodes) = 1 /\ mnodes[1].visits = 0 /\ mnodes[1].children = <<>>

\* the exact depth-limited minimax value of the state a call of min_value or
\* max_value was made on
minimax_of_call ==
  IF call.op = "max_value" THEN minimax_max(player_id, call.state, call.depth)
  ELSE minimax_min(player_id, call.state, call.depth)

\* C21: window soundness. For bounds alpha < beta and m the exact
\* depth-limited minimax value of the state, max_value and min_value return m
\* when alpha < m < beta, a value <= alpha when m <= alpha, and a value
\* >= beta when m >= beta.
C21_WindowSoundness ==
  (call.op \in {"min_value", "max_value"} /\ call.alpha < call.beta) =>
    /\ (call.alpha < minimax_of_call /\ minimax_of_call < call.beta) =>
         call.ret = minimax_of_call
    /\ minimax_of_call <= call.alpha => call.ret <= call.alpha
    /\ minimax_of_call >= call.beta => call.ret >= call.beta

\* C21 witness: max_value has left its loop on a cut, with a value at or
\* above beta that is not the minimax value of the state
C21_Witness ==
  /\ call.op = "max_value" /\ call.depth >= 1 /\ call.alpha < call.beta
  /\ ~terminal_test(call.state)
  /\ minimax_of_call >= call.beta
  /\ call.ret >= call.beta
  /\ call.ret # minimax_of_call

\* the number of plies from the root of the call down to state
plies_below(state) == ply_count(state) - ply_count(call.state)

\* C22: alpha_beta_search and NegamaxAlphaBeta with a depth d >= 1 end, and
\* every call of min_value or max_value they make is on a state at most d
\* plies below the root, with the depth that remains there: one less per
\* ply, the caller being a call that went on (no terminal state, depth left);
\* result is used only above ply d and each state is evaluated at most once.
C22_DepthBoundsTheSearch ==
  (call.op \in {"alpha_beta_search", "NegamaxAlphaBeta"} /\ call.depth >= 1) =>
    /\ \A c \in call.calls :
         /\ plies_below(c.state) \in 1..call.depth
         /\ c.depth = call.depth - plies_below(c.state)
         /\ c.does = "result" <=> (c.depth > 0 /\ ~terminal_test(c.state))
         /\ c.does = "score" <=> (c.depth = 0 /\ ~terminal_test(c.state))
         /\ plies_below(c.state) > 1 =>
              \E p \in call.calls :
                /\ p.does = "result" /\ p.depth = c.depth + 1 /\ p.fn # c.fn
                /\ c.state \in {result(p.state, a) : a \in Range(actions(p.state))}
    /\ Cardinality(call.calls)
         <= Cardinality({s \in Nodes : plies_below(s) \in 1..call.depth})
    /\ actions(call.state) # <<>> =>
         \E c \in call.calls : c.state = result(call.state, actions(call.state)[1])

\* C22 witness: alpha_beta_search has returned from a tree deeper than its
\* depth, having stopped with score on a state that has actions left and with
\* utility on a terminal state
C22_Witness ==
  /\ call.op = "alpha_beta_search" /\ call.depth >= 1
  /\ call.ret \in Range(actions(call.state))
  /\ \E s \in Nodes : plies_below(s) > call.depth
  /\ \E c \in call.calls : c.does = "score" /\ actions(c.state) # <<>>
  /\ \E c \in call.calls : c.does = "utility"

====
